---- MODULE Spec2Model ----
(***************************************************************************)
(* Model of the protein dataset registry (src/data/dataset.py) and of the  *)
(* PDB data source it evaluates structures with (src/data/sources.py).     *)
(*                                                                         *)
(* Strings that the code transforms (protein ids) are sequences of         *)
(* one-character strings, so that str.lower() is computed.  A resolution   *)
(* is a natural number of tenths of an Angstrom; Python's None, which the  *)
(* code compares numbers with, is the integer -1, below every number the   *)
(* model uses.  A call's outcome is a record: Return(v) for a normal       *)
(* return, Raise(m) for an exception.                                      *)
(***************************************************************************)
EXTENDS Integers, Sequences, FiniteSets, TLC

VARIABLES proteins, other, store, cache, remote, now, last, probe

vars == <<proteins, other, store, cache, remote, now, last, probe>>

----------------------------------------------------------------------------
(* Bounds *)

MaxClock == 3
MaxProbeLen == 4
MaxProbeRes == 3

----------------------------------------------------------------------------
(* Python values *)

None == -1

Return(v) == [raised |-> FALSE, val |-> v]
Raise(m) == [raised |-> TRUE, msg |-> m]

Get(d, k, default) == IF k \in DOMAIN d THEN d[k] ELSE default

EmptyDict == <<>>

NoMsg == [text |-> "", id |-> <<>>]

UpperLetters == <<"C", "I", "L", "M", "N", "R", "T", "Y", "Z">>
LowerLetters == <<"c", "i", "l", "m", "n", "r", "t", "y", "z">>

lower_char(c) ==
    IF \E i \in DOMAIN UpperLetters : UpperLetters[i] = c
    THEN LowerLetters[CHOOSE i \in DOMAIN UpperLetters : UpperLetters[i] = c]
    ELSE c

lower(s) == [i \in DOMAIN s |-> lower_char(s[i])]

----------------------------------------------------------------------------
(* Selection criteria of the registry; resolution in tenths of an Angstrom *)

max_resolution == 25
min_length == 50
max_length == 300

selection_criteria ==
    [max_resolution |-> max_resolution, min_length |-> min_length,
     max_length |-> max_length, require_ec |-> TRUE]

----------------------------------------------------------------------------
(* Structure files.  The text of a file is either a PDB entry (a header and *)
(* the models of chains; a chain is written <<s, h>> for s standard        *)
(* residues followed by h hetero residues) or text the parser rejects.     *)
(* The parser builds the model -> chain -> residue hierarchy.              *)

Residue(het, i) == [id |-> <<het, i, " ">>]

Chain(nStd, nHet) ==
    [i \in 1..(nStd + nHet) |->
        IF i <= nStd THEN Residue(" ", i) ELSE Residue("W", i)]

PdbText(header, models) == [format |-> "pdb", header |-> header, models |-> models]

GarbageText == [format |-> "garbage", header |-> EmptyDict, models |-> <<>>]

Header(res) ==
    [name |-> "protein", resolution |-> res,
     structure_method |-> "x-ray diffraction", keywords |-> <<"hydrolase">>]

HeaderNoResolution == [name |-> "protein"]

parser_get_structure(protein_id, text) ==
    IF text.format = "pdb"
    THEN Return([id |-> protein_id, header |-> text.header,
                 models |-> [m \in DOMAIN text.models |->
                               [c \in DOMAIN text.models[m] |->
                                  Chain(text.models[m][c][1], text.models[m][c][2])]]])
    ELSE Raise([text |-> "Invalid or missing coordinate", id |-> protein_id])

----------------------------------------------------------------------------
(* PDBDataSource *)

fetch_structure(files, pid, net) ==
    LET exists == pid \in DOMAIN files
        response == net[1]
        files2 == IF exists THEN files ELSE (pid :> response.text) @@ files
    IN  IF ~exists /\ response.status_code # 200
        THEN [cache |-> files, net |-> Tail(net), gets |-> 1,
              ret |-> Raise([text |-> "Failed to download PDB", id |-> pid])]
        ELSE [cache |-> files2,
              net |-> IF exists THEN net ELSE Tail(net),
              gets |-> IF exists THEN 0 ELSE 1,
              ret |-> parser_get_structure(pid, files2[pid])]

get_structure_as_given(files, protein_id, net) == fetch_structure(files, protein_id, net)

get_structure(files, protein_id, net) == fetch_structure(files, lower(protein_id), net)

function_info(protein_id, header) ==
    [id |-> protein_id,
     description |-> Get(header, "name", ""),
     resolution |-> Get(header, "resolution", None),
     structure_method |-> Get(header, "structure_method", ""),
     keywords |-> Get(header, "keywords", <<>>),
     ec_numbers |-> <<>>]

function_of(s, protein_id) ==
    IF s.ret.raised
    THEN s
    ELSE [s EXCEPT !.ret = Return(function_info(protein_id, s.ret.val.header))]

get_function(files, protein_id, net) ==
    function_of(get_structure(files, protein_id, net), protein_id)

CountResidues_all(chain, count) == count + Len(chain)

CountResidues(chain, count) ==
    count + Cardinality({i \in DOMAIN chain : chain[i].id[1] = " "})

RECURSIVE CountChains(_, _, _)
CountChains(model, i, count) ==
    IF i > Len(model) THEN count
    ELSE CountChains(model, i + 1, CountResidues(model[i], count))

RECURSIVE CountModels(_, _, _)
CountModels(models, i, count) ==
    IF i > Len(models) THEN count
    ELSE CountModels(models, i + 1, CountChains(models[i], 1, count))

CheckCounted(resolution, amino_acid_count, maxres, minlen, maxlen) ==
    IF resolution = None \/ resolution > maxres
    THEN <<FALSE, [reason |-> [kind |-> "Resolution", value |-> resolution,
                               limit |-> maxres, msg |-> NoMsg]]>>
    ELSE IF amino_acid_count < minlen
    THEN <<FALSE, [reason |-> [kind |-> "Too short", value |-> amino_acid_count,
                               limit |-> minlen, msg |-> NoMsg]]>>
    ELSE IF amino_acid_count > maxlen
    THEN <<FALSE, [reason |-> [kind |-> "Too long", value |-> amino_acid_count,
                               limit |-> maxlen, msg |-> NoMsg]]>>
    ELSE <<TRUE, [resolution |-> resolution,
                  amino_acid_count |-> amino_acid_count,
                  has_ec_number |-> FALSE]>>

CheckCriteria(structure, info, maxres, minlen, maxlen) ==
    CheckCounted(Get(info, "resolution", None), CountModels(structure.models, 1, 0),
                 maxres, minlen, maxlen)

ErrorResult(e) ==
    <<FALSE, [reason |-> [kind |-> "Error", value |-> None, limit |-> 0, msg |-> e]]>>

validate_summarised(s, f, maxres, minlen, maxlen) ==
    IF f.ret.raised
    THEN [f EXCEPT !.ret = Return(ErrorResult(f.ret.msg)), !.gets = s.gets + f.gets]
    ELSE [f EXCEPT !.ret = Return(CheckCriteria(s.ret.val, f.ret.val,
                                                maxres, minlen, maxlen)),
                   !.gets = s.gets + f.gets]

validate_fetched_unguarded(s, protein_id, maxres, minlen, maxlen) ==
    IF s.ret.raised
    THEN s
    ELSE validate_summarised(s, get_function(s.cache, protein_id, s.net),
                             maxres, minlen, maxlen)

validate_fetched(s, protein_id, maxres, minlen, maxlen) ==
    IF s.ret.raised
    THEN [s EXCEPT !.ret = Return(ErrorResult(s.ret.msg))]
    ELSE validate_summarised(s, get_function(s.cache, protein_id, s.net),
                             maxres, minlen, maxlen)

validate_structure(files, protein_id, maxres, minlen, maxlen, net) ==
    validate_fetched(get_structure(files, protein_id, net), protein_id,
                     maxres, minlen, maxlen)

----------------------------------------------------------------------------
(* json.dump / json.load of the registry mapping.  A JSON text is the tree  *)
(* of its values; each Python value is written as the JSON value of its    *)
(* type and read back as the Python value of the JSON value's type.        *)

JString(s) == [j |-> "string", v |-> s]
JNumber(n) == [j |-> "number", v |-> n]
JBool(b) == IF b THEN [j |-> "true"] ELSE [j |-> "false"]
JNull == [j |-> "null"]
JArray(a) == [j |-> "array", v |-> a]
JObject(o) == [j |-> "object", v |-> o]

JOptNumber(x) == IF x = None THEN JNull ELSE JNumber(x)

json_reason(r) ==
    JString([kind |-> r.kind, value |-> r.value, limit |-> r.limit, msg |-> r.msg])

json_validation_info(info) ==
    IF "reason" \in DOMAIN info
    THEN JObject([reason |-> json_reason(info.reason)])
    ELSE JObject([resolution |-> JOptNumber(info.resolution),
                  amino_acid_count |-> JNumber(info.amino_acid_count),
                  has_ec_number |-> JBool(info.has_ec_number)])

json_function_info(f) ==
    JObject([id |-> JString(f.id),
             description |-> JString(f.description),
             resolution |-> JOptNumber(f.resolution),
             structure_method |-> JString(f.structure_method),
             keywords |-> IF f.keywords = <<>> THEN JArray(<<>>) ELSE JString(f.keywords),
             ec_numbers |-> JArray(f.ec_numbers)])

json_evaluation(e) ==
    IF "error" \in DOMAIN e
    THEN JObject([protein_id |-> JString(e.protein_id),
                  meets_criteria |-> JBool(e.meets_criteria),
                  error |-> JString(e.error),
                  evaluation_date |-> JString(e.evaluation_date)])
    ELSE JObject([protein_id |-> JString(e.protein_id),
                  meets_criteria |-> JBool(e.meets_criteria),
                  validation_info |-> json_validation_info(e.validation_info),
                  function_info |-> json_function_info(e.function_info),
                  evaluation_date |-> JString(e.evaluation_date)])

json_dump(mapping) == JObject([k \in DOMAIN mapping |-> json_evaluation(mapping[k])])

RECURSIVE json_load(_)
json_load(t) ==
    CASE t.j = "object" -> [k \in DOMAIN t.v |-> json_load(t.v[k])]
      [] t.j = "array" -> [i \in DOMAIN t.v |-> json_load(t.v[i])]
      [] t.j = "string" -> t.v
      [] t.j = "number" -> t.v
      [] t.j = "true" -> TRUE
      [] t.j = "false" -> FALSE
      [] t.j = "null" -> None

----------------------------------------------------------------------------
(* ProteinDatasetRegistry *)

NoFile == [exists |-> FALSE, text |-> JNull]
File(t) == [exists |-> TRUE, text |-> t]

get_valid_proteins_no_error(mapping) ==
    LET valid == {pid \in DOMAIN mapping : "error" \notin DOMAIN mapping[pid]}
    IN  [pid \in valid |-> mapping[pid]]

get_valid_proteins(mapping) ==
    LET valid == {pid \in DOMAIN mapping : Get(mapping[pid], "meets_criteria", FALSE)}
    IN  [pid \in valid |-> mapping[pid]]

load_registry(registry_file) ==
    IF registry_file.exists THEN json_load(registry_file.text) ELSE EmptyDict

save_registry_append(registry_file, mapping) ==
    File(json_dump(mapping @@ load_registry(registry_file)))

save_registry(registry_file, mapping) == File(json_dump(mapping))

Evaluation(protein_id, v, f, clock) ==
    IF f.ret.raised
    THEN [protein_id |-> protein_id,
          meets_criteria |-> FALSE,
          error |-> f.ret.msg,
          evaluation_date |-> clock]
    ELSE [protein_id |-> protein_id,
          meets_criteria |-> v.ret.val[1],
          validation_info |-> v.ret.val[2],
          function_info |-> f.ret.val,
          evaluation_date |-> clock]

record_evaluation_unguarded(mapping, v, f, evaluation) ==
    IF f.ret.raised
    THEN [proteins |-> mapping, cache |-> f.cache, gets |-> v.gets + f.gets,
          calls |-> 2, evaluated |-> TRUE, ret |-> f.ret]
    ELSE [proteins |-> (evaluation.protein_id :> evaluation) @@ mapping,
          cache |-> f.cache, gets |-> v.gets + f.gets, calls |-> 2,
          evaluated |-> TRUE, ret |-> Return(evaluation)]

record_evaluation(mapping, v, f, evaluation) ==
    [proteins |-> (evaluation.protein_id :> evaluation) @@ mapping,
     cache |-> f.cache, gets |-> v.gets + f.gets, calls |-> 2,
     evaluated |-> TRUE, ret |-> Return(evaluation)]

evaluate_summarised(mapping, protein_id, clock, v, f) ==
    record_evaluation(mapping, v, f, Evaluation(protein_id, v, f, clock))

evaluate_validated(mapping, protein_id, clock, v) ==
    evaluate_summarised(mapping, protein_id, clock, v,
                        get_function(v.cache, protein_id, v.net))

evaluate_protein(mapping, files, protein_id, net, clock) ==
    evaluate_validated(mapping, protein_id, clock,
                       validate_structure(files, protein_id,
                                          selection_criteria.max_resolution,
                                          selection_criteria.min_length,
                                          selection_criteria.max_length, net))

add_protein_restamp(mapping, files, id, net, clock) ==
    LET protein_id == lower(id)
    IN  IF protein_id \in DOMAIN mapping
        THEN LET again == [mapping[protein_id] EXCEPT !.evaluation_date = clock]
             IN  [proteins |-> (protein_id :> again) @@ mapping, cache |-> files,
                  gets |-> 0, calls |-> 0, evaluated |-> FALSE, ret |-> Return(again)]
        ELSE evaluate_protein(mapping, files, protein_id, net, clock)

add_protein_as_given(mapping, files, id, net, clock) ==
    IF id \in DOMAIN mapping
    THEN [proteins |-> mapping, cache |-> files, gets |-> 0, calls |-> 0,
          evaluated |-> FALSE, ret |-> Return(mapping[id])]
    ELSE evaluate_protein(mapping, files, id, net, clock)

add_protein(mapping, files, id, net, clock) ==
    LET protein_id == lower(id)
    IN  IF protein_id \in DOMAIN mapping
        THEN [proteins |-> mapping, cache |-> files, gets |-> 0, calls |-> 0,
              evaluated |-> FALSE, ret |-> Return(mapping[protein_id])]
        ELSE evaluate_protein(mapping, files, protein_id, net, clock)

generate_summary_report(mapping) ==
    LET total == Cardinality(DOMAIN mapping)
        valid == Cardinality(DOMAIN get_valid_proteins(mapping))
    IN  [total_proteins_evaluated |-> total,
         valid_proteins |-> valid,
         invalid_proteins |-> total - valid,
         proteins_by_ec_class |-> EmptyDict,
         selection_criteria |-> selection_criteria,
         registry_file |-> "protein_registry.json"]

----------------------------------------------------------------------------
(* Environment: the ids callers pass, what the download server holds for   *)
(* each lowercase id, and the responses it can give to one GET.            *)

Ids ==
    {<<"1", "l", "y", "z">>, <<"1", "L", "Y", "Z">>, <<"1", "t", "i", "m">>,
     <<"1", "C", "r", "n">>}

Keys == {lower(id) : id \in Ids}

Absent == [present |-> FALSE, text |-> GarbageText]
Held(t) == [present |-> TRUE, text |-> t]

RemoteScenarios ==
    { (<<"1", "l", "y", "z">> :> Held(PdbText(Header(max_resolution),
                                              << << <<min_length, 2>> >> >>)))
      @@ (<<"1", "t", "i", "m">> :> Absent)
      @@ (<<"1", "c", "r", "n">> :> Held(PdbText(Header(18),
                                              << << <<max_length, 0>>, <<1, 1>> >> >>))),
      (<<"1", "l", "y", "z">> :> Held(PdbText(HeaderNoResolution,
                                              << << <<120, 0>> >> >>)))
      @@ (<<"1", "t", "i", "m">> :> Held(GarbageText))
      @@ (<<"1", "c", "r", "n">> :> Held(PdbText(Header(20),
                                              << << <<100, 3>> >>, << <<200, 0>> >> >>))) }

Responses(server, pid) ==
    IF server[pid].present
    THEN {[status_code |-> 200, text |-> server[pid].text],
          [status_code |-> 503, text |-> GarbageText]}
    ELSE {[status_code |-> 404, text |-> GarbageText]}

Nets(server, pid, files) ==
    IF pid \in DOMAIN files
    THEN {<<>>}
    ELSE [1..2 -> Responses(server, pid)]

Call(op, arg, ret, gets, calls) ==
    [op |-> op, arg |-> arg, ret |-> ret, gets |-> gets, calls |-> calls]

(* Inputs of one validate_structure call on a cached file: the resolution  *)
(* in the header (bare: the header has no resolution entry), the number n  *)
(* of standard residues, how the residues are laid out in models and       *)
(* chains, and the criteria <<max_resolution, min_length, max_length>>.    *)

ProbeId == <<"1", "L", "Y", "Z">>

Layout(n, layout) ==
    CASE layout = 1 -> << << <<n, 0>> >> >>
      [] layout = 2 -> << << <<n \div 2, 1>>, <<n - (n \div 2), 2>> >> >>
      [] layout = 3 -> << << <<0, 1>> >>, << <<n, 0>>, <<0, 0>> >> >>

Probes ==
    {p \in [r : {None} \cup {x : x \in 0..MaxProbeRes},
            bare : BOOLEAN,
            n : 0..MaxProbeLen,
            layout : 1..3,
            crit : (0..MaxProbeRes) \X (0..MaxProbeLen) \X (0..MaxProbeLen)] :
        p.bare => p.r = None}

NoProbe == [r |-> None, bare |-> TRUE, n |-> 0, layout |-> 1, crit |-> <<0, 0, 0>>]

ProbeText(p) ==
    PdbText(IF p.bare THEN HeaderNoResolution ELSE Header(p.r), Layout(p.n, p.layout))

Init ==
    /\ store = NoFile
    /\ proteins = load_registry(store)
    /\ other = load_registry(store)
    /\ cache = EmptyDict
    /\ remote \in RemoteScenarios
    /\ now = 0
    /\ last = Call("init", <<>>, Return(None), 0, 0)
    /\ probe = NoProbe

Construct ==
    /\ proteins' = load_registry(store)
    /\ last' = Call("init", <<>>, Return(None), 0, 0)
    /\ UNCHANGED <<other, store, cache, remote, now, probe>>

Save ==
    /\ store' = save_registry(store, proteins)
    /\ last' = Call("save", <<>>, Return(None), 0, 0)
    /\ UNCHANGED <<other, proteins, cache, remote, now, probe>>

AddCommit_autosave(id, r) ==
    /\ r.evaluated => now < MaxClock
    /\ proteins' = r.proteins
    /\ cache' = r.cache
    /\ now' = IF r.evaluated THEN now + 1 ELSE now
    /\ last' = Call("add", id, r.ret, r.gets, r.calls)
    /\ store' = save_registry(store, r.proteins)
    /\ UNCHANGED <<other, remote, probe>>

AddCommit(id, r) ==
    /\ r.evaluated => now < MaxClock
    /\ proteins' = r.proteins
    /\ cache' = r.cache
    /\ now' = IF r.evaluated THEN now + 1 ELSE now
    /\ last' = Call("add", id, r.ret, r.gets, r.calls)
    /\ UNCHANGED <<other, store, remote, probe>>

Add ==
    \E id \in Ids : \E net \in Nets(remote, lower(id), cache) :
        AddCommit(id, add_protein(proteins, cache, id, net, now))

GetValid ==
    /\ last' = Call("get_valid", <<>>, Return(get_valid_proteins(proteins)), 0, 0)
    /\ UNCHANGED <<other, proteins, store, cache, remote, now, probe>>

Summary ==
    /\ last' = Call("summary", <<>>, Return(generate_summary_report(proteins)), 0, 0)
    /\ UNCHANGED <<other, proteins, store, cache, remote, now, probe>>

Next ==
    \/ Construct
    \/ Save
    \/ Add
    \/ GetValid
    \/ Summary

Spec == Init /\ [][Next]_vars

----------------------------------------------------------------------------
(* A second registry object on the same registry file: it is constructed   *)
(* and saved like the first, and holds what the file held when it was      *)
(* constructed.                                                            *)

ConstructOther ==
    /\ other' = load_registry(store)
    /\ last' = Call("init_other", <<>>, Return(None), 0, 0)
    /\ UNCHANGED <<proteins, store, cache, remote, now, probe>>

SaveOther ==
    /\ store' = save_registry(store, other)
    /\ last' = Call("save_other", <<>>, Return(None), 0, 0)
    /\ UNCHANGED <<proteins, other, cache, remote, now, probe>>

NextShared ==
    \/ Construct
    \/ Save
    \/ Add
    \/ ConstructOther
    \/ SaveOther

SpecShared == Init /\ [][NextShared]_vars

----------------------------------------------------------------------------
(* Direct calls of the data source.  A returned structure is recorded by   *)
(* its id and header.                                                      *)

Outcome(ret) ==
    IF ret.raised THEN ret ELSE Return([id |-> ret.val.id, header |-> ret.val.header])

SourceCommit(op, id, r, ret) ==
    /\ cache' = r.cache
    /\ last' = Call(op, id, ret, r.gets, 1)
    /\ UNCHANGED <<other, proteins, store, remote, now, probe>>

SourceReturn(op, id, r) == SourceCommit(op, id, r, r.ret)

GetStructureCommit(id, r) == SourceCommit("get_structure", id, r, Outcome(r.ret))

GetStructure ==
    \E id \in Ids : \E net \in Nets(remote, lower(id), cache) :
        GetStructureCommit(id, get_structure(cache, id, net))

GetFunction ==
    \E id \in Ids : \E net \in Nets(remote, lower(id), cache) :
        SourceReturn("get_function", id, get_function(cache, id, net))

ValidateStructure ==
    \E id \in Ids : \E net \in Nets(remote, lower(id), cache) :
        SourceReturn("validate_structure", id,
                     validate_structure(cache, id, max_resolution, min_length,
                                        max_length, net))

NextSource ==
    \/ GetStructure
    \/ GetFunction
    \/ ValidateStructure

SpecSource == Init /\ [][NextSource]_vars

----------------------------------------------------------------------------
(* validate_structure as a function of the structure and the criteria.     *)

InitProbe ==
    /\ probe \in Probes
    /\ cache = (lower(ProbeId) :> ProbeText(probe))
    /\ store = NoFile
    /\ proteins = EmptyDict
    /\ other = EmptyDict
    /\ remote \in RemoteScenarios
    /\ now = 0
    /\ last = Call("init", <<>>, Return(None), 0, 0)

ValidateProbe ==
    SourceReturn("validate_structure", ProbeId,
                 validate_structure(cache, ProbeId, probe.crit[1], probe.crit[2],
                                    probe.crit[3], <<>>))

SpecValidate == InitProbe /\ [][ValidateProbe]_vars

----------------------------------------------------------------------------
(* Properties of the registry, checked under Spec *)

IsAdd(l) == l.op = "add"

(* C1: an add of an id whose lowercased form is already a key returns the   *)
(* stored Evaluation (an error record included), makes no data source call  *)
(* and no GET, and leaves the registry and the cache as they were; every    *)
(* add returns the Evaluation the registry then holds for the id, so a      *)
(* second add of the id returns the identical Evaluation.                   *)
C1_AddIsIdempotent ==
    [][IsAdd(last') =>
          LET key == lower(last'.arg)
          IN  /\ ~last'.ret.raised
              /\ key \in DOMAIN proteins'
              /\ last'.ret.val = proteins'[key]
              /\ key \in DOMAIN proteins =>
                    /\ last'.ret.val = proteins[key]
                    /\ last'.calls = 0
                    /\ last'.gets = 0
                    /\ proteins' = proteins
                    /\ cache' = cache
                    /\ now' = now]_vars

C1_Witness ==
    /\ IsAdd(last)
    /\ last.calls = 0
    /\ "error" \in DOMAIN last.ret.val
    /\ last.ret.val.evaluation_date < now - 1

KeysNormalized ==
    \A k \in DOMAIN proteins : k = lower(k) /\ proteins[k].protein_id = k

(* C2: every registry key is lowercase and is the protein_id of its         *)
(* Evaluation, and an add of an id that differs only in letter case from a  *)
(* key adds no entry and evaluates nothing.                                 *)
C2_CaseInsensitiveKey ==
    /\ [](KeysNormalized /\ DOMAIN proteins \subseteq Keys)
    /\ [][(IsAdd(last') /\ \E k \in DOMAIN proteins : lower(k) = lower(last'.arg))
             => /\ DOMAIN proteins' = DOMAIN proteins
                /\ last'.calls = 0
                /\ now' = now]_vars

C2_Witness ==
    /\ IsAdd(last)
    /\ last.arg = <<"1", "L", "Y", "Z">>
    /\ last.calls = 0
    /\ DOMAIN proteins = {<<"1", "l", "y", "z">>}

(* C3: after save() the registry file reads back as the mapping of the    *)
(* registry object that saved it, whatever the file held before, and a     *)
(* registry object constructed on the file holds what the file reads back  *)
(* as; checked under SpecShared, with two registry objects on one file.    *)
C3_SaveLoadRoundTrip ==
    /\ last.op = "save" => store.exists /\ load_registry(store) = proteins
    /\ last.op = "init" => proteins = load_registry(store)
    /\ last.op = "save_other" => store.exists /\ load_registry(store) = other
    /\ last.op = "init_other" => other = load_registry(store)

C3_Witness ==
    /\ last.op = "init"
    /\ store.exists
    /\ \E k \in DOMAIN proteins : "error" \in DOMAIN proteins[k]
    /\ \E k \in DOMAIN proteins : proteins[k].meets_criteria
    /\ \E k \in DOMAIN proteins :
          /\ "error" \notin DOMAIN proteins[k]
          /\ ~proteins[k].meets_criteria

(* C4: only save() changes the backing store; add, get_valid, summary and  *)
(* the construction of a registry leave it as it is, and a registry        *)
(* constructed when the store does not exist starts empty.                 *)
C4_OnlySaveWritesStore ==
    /\ [][last'.op # "save" => store' = store]_vars
    /\ [](last.op = "init" /\ ~store.exists => proteins = EmptyDict)

C4_Witness ==
    /\ last.op = "init"
    /\ ~store.exists
    /\ now = 2
    /\ DOMAIN cache # {}

Malformed(server, pid) == ~server[pid].present \/ server[pid].text.format # "pdb"

Undated(e) == [e EXCEPT !.evaluation_date = 0]

AloneOutcome(pid, net) == Undated(add_protein(EmptyDict, EmptyDict, pid, net, 0).ret.val)

AloneOutcomes(server, pid) ==
    {AloneOutcome(pid, net) : net \in Nets(server, pid, EmptyDict)}

(* C6: add never raises; the entry of an id whose file cannot be fetched   *)
(* or parsed has meets_criteria false and an error field; the entry of any *)
(* id is, its date aside, one that an add of the id alone into an empty    *)
(* registry gives.                                                         *)
C6_FaultIsolation ==
    /\ IsAdd(last) => ~last.ret.raised /\ lower(last.arg) \in DOMAIN proteins
    /\ \A k \in DOMAIN proteins :
          Malformed(remote, k) =>
             ~proteins[k].meets_criteria /\ "error" \in DOMAIN proteins[k]
    /\ IsAdd(last) =>
          \A k \in DOMAIN proteins :
             \E e \in AloneOutcomes(remote, k) : e = Undated(proteins[k])

C6_Witness ==
    /\ IsAdd(last)
    /\ DOMAIN proteins = Keys
    /\ "error" \in DOMAIN proteins[<<"1", "t", "i", "m">>]
    /\ ~proteins[<<"1", "t", "i", "m">>].meets_criteria
    /\ proteins[<<"1", "t", "i", "m">>].evaluation_date = 1
    /\ proteins[<<"1", "l", "y", "z">>].meets_criteria
    /\ "validation_info" \in DOMAIN proteins[<<"1", "c", "r", "n">>]

(* C10: get_valid() returns exactly the entries whose meets_criteria is    *)
(* true, summary() counts all entries, the valid ones and the rest, and    *)
(* neither changes the registry, the store or the cache.                   *)
C10_GetValidAndSummary ==
    /\ [](last.op = "get_valid" =>
            /\ DOMAIN last.ret.val = {k \in DOMAIN proteins : proteins[k].meets_criteria}
            /\ \A k \in DOMAIN last.ret.val : last.ret.val[k] = proteins[k])
    /\ [](last.op = "summary" =>
            LET n == Cardinality({k \in DOMAIN proteins : proteins[k].meets_criteria})
            IN  /\ last.ret.val.total_proteins_evaluated = Cardinality(DOMAIN proteins)
                /\ last.ret.val.valid_proteins = n
                /\ last.ret.val.invalid_proteins = Cardinality(DOMAIN proteins) - n)
    /\ [][last'.op \in {"get_valid", "summary"} =>
             proteins' = proteins /\ store' = store /\ cache' = cache]_vars

C10_Witness ==
    /\ last.op = "get_valid"
    /\ Cardinality(DOMAIN last.ret.val) = 1
    /\ \E k \in DOMAIN proteins : "error" \in DOMAIN proteins[k]
    /\ \E k \in DOMAIN proteins :
          /\ "error" \notin DOMAIN proteins[k]
          /\ ~proteins[k].meets_criteria

----------------------------------------------------------------------------
(* Properties of validate_structure as a function, checked under           *)
(* SpecValidate *)

(* C5: for a parsed structure with resolution r (None when the header has  *)
(* none) and n standard residues, validate fails with a resolution reason  *)
(* if r is None or r > max_resolution, else with a too-short reason if     *)
(* n < min_length, else with a too-long reason if n > max_length, and      *)
(* passes otherwise; every bound is inclusive.                             *)
C5_ValidateMatchesReference ==
    last.op = "validate_structure" =>
        LET r == probe.r
            n == probe.n
            maxres == probe.crit[1]
            minlen == probe.crit[2]
            maxlen == probe.crit[3]
            passed == last.ret.val[1]
            detail == last.ret.val[2]
        IN  /\ ~last.ret.raised
            /\ IF r = None \/ r > maxres
               THEN /\ ~passed
                    /\ detail.reason.kind = "Resolution"
                    /\ detail.reason.value = r
                    /\ detail.reason.limit = maxres
               ELSE IF n < minlen
               THEN /\ ~passed
                    /\ detail.reason.kind = "Too short"
                    /\ detail.reason.value = n
                    /\ detail.reason.limit = minlen
               ELSE IF n > maxlen
               THEN /\ ~passed
                    /\ detail.reason.kind = "Too long"
                    /\ detail.reason.value = n
                    /\ detail.reason.limit = maxlen
               ELSE /\ passed
                    /\ detail.resolution = r
                    /\ detail.amino_acid_count = n
            /\ (r # None /\ r = maxres /\ n = minlen /\ n <= maxlen) => passed
            /\ (r # None /\ r <= maxres /\ n = maxlen /\ n >= minlen) => passed
            /\ (r # None /\ r <= maxres /\ n = minlen - 1) => ~passed
            /\ (r # None /\ r <= maxres /\ n = maxlen + 1) => ~passed
            /\ r = None => ~passed

C5_Witness ==
    /\ last.op = "validate_structure"
    /\ last.ret.val[1]
    /\ probe.layout = 2
    /\ probe.r = probe.crit[1]
    /\ probe.n = probe.crit[2]
    /\ probe.n = probe.crit[3]
    /\ probe.n = MaxProbeLen - 1

----------------------------------------------------------------------------
(* Properties of the data source, checked under SpecSource *)

(* C7: validate_structure never raises; it fails with an error reason when *)
(* the file cannot be fetched or parsed; a failed result holds a reason    *)
(* and no numeric field, a passed one the numeric fields and no reason.    *)
C7_ValidateNeverRaises ==
    last.op = "validate_structure" =>
        /\ ~last.ret.raised
        /\ LET passed == last.ret.val[1]
               detail == last.ret.val[2]
           IN  /\ passed =>
                     /\ DOMAIN detail = {"resolution", "amino_acid_count", "has_ec_number"}
                     /\ detail.has_ec_number = FALSE
               /\ ~passed => DOMAIN detail = {"reason"}
               /\ (Malformed(remote, lower(last.arg)) \/ lower(last.arg) \notin DOMAIN cache)
                     => ~passed /\ detail.reason.kind = "Error"

C7_Witness ==
    /\ last.op = "validate_structure"
    /\ lower(last.arg) \in DOMAIN cache
    /\ Malformed(remote, lower(last.arg))
    /\ last.ret.val[2].reason.kind = "Error"
    /\ last.gets = 1

IsFetchError(ret) == ret.raised /\ ret.msg.text = "Failed to download PDB"

(* C8: get_structure on an id whose lowercased form has a cache file makes *)
(* no GET and leaves the cache as it is; on a miss it makes one GET and    *)
(* either raises the download error and leaves the cache as it is, or adds *)
(* exactly the file of the lowercased id, holding the response text.       *)
C8_CacheBehaviour ==
    [][last'.op = "get_structure" =>
          LET pid == lower(last'.arg)
          IN  IF pid \in DOMAIN cache
              THEN /\ last'.gets = 0
                   /\ cache' = cache
                   /\ ~IsFetchError(last'.ret)
              ELSE /\ last'.gets = 1
                   /\ IF IsFetchError(last'.ret)
                      THEN cache' = cache
                      ELSE /\ DOMAIN cache' = DOMAIN cache \cup {pid}
                           /\ cache'[pid] = remote[pid].text
                           /\ \A k \in DOMAIN cache : cache'[k] = cache[k]]_vars

C8_Witness ==
    /\ last.op = "get_structure"
    /\ last.arg # lower(last.arg)
    /\ last.gets = 0
    /\ ~last.ret.raised
    /\ Cardinality(DOMAIN cache) = 2

----------------------------------------------------------------------------
(* C9: one add performs at most one HTTP GET. *)
C9_AtMostOneGetPerAdd == IsAdd(last) => last.gets <= 1

====
